---- MODULE Spec2Model ----
(***************************************************************************)
(* Component type preservation for offline codegen (convex-js).            *)
(*                                                                         *)
(* A text is a sequence of tokens: whitespace is not represented, a        *)
(* comment and a string literal are one token each.  The TypeScript parser *)
(* (ts.createSourceFile) is the operator Parse on token sequences, the     *)
(* TypeScript printer (printer.printNode) the operators PrintStatement and *)
(* PrintType; String.prototype.includes is Includes.                       *)
(*                                                                         *)
(* A JavaScript `string | null` is an option: Null, or Some(text).         *)
(***************************************************************************)
EXTENDS Integers, Sequences, FiniteSets, TLC

(***************************************************************************)
(* Bounds of the model.                                                    *)
(***************************************************************************)
\* Largest number of top-level statements of an input artifact.
MaxStmts == 2
\* Largest number of regenerations in one behaviour of the pipeline.
MaxRuns == 4
\* Largest number of calls begun in one behaviour of the concurrent callers.
MaxCalls == 4
\* Largest number of module paths handed to apiCodegen.
MaxModules == 2

(***************************************************************************)
(* Options and small sequence helpers.                                     *)
(***************************************************************************)
Null == <<>>
Some(x) == <<x>>
IsNull(o) == o = <<>>
Val(o) == o[1]

RECURSIVE Concat(_)
Concat(ss) ==
    IF ss = <<>> THEN <<>> ELSE Head(ss) \o Concat(Tail(ss))

RECURSIVE Join(_, _)
Join(ss, sep) ==
    IF ss = <<>> THEN <<>>
    ELSE IF Len(ss) = 1 THEN ss[1]
    ELSE ss[1] \o <<sep>> \o Join(Tail(ss), sep)

(***************************************************************************)
(* codegen_templates/api.js: module paths.                                 *)
(*                                                                         *)
(* A module path is a sequence of atoms: each of the characters            *)
(* / \ - . _ is an atom of its own, and every maximal run of other         *)
(* characters is one atom.  Two paths are the same string exactly when     *)
(* they are the same sequence of atoms.                                    *)
(***************************************************************************)
\* The characters of a path, as one string.
RECURSIVE Spell(_)
Spell(atoms) == IF atoms = <<>> THEN "" ELSE Head(atoms) \o Spell(Tail(atoms))

\* text.replace(/from/g, to) for a one-character pattern.
ReplaceAll(atoms, from, to) ==
    [i \in 1..Len(atoms) |-> IF atoms[i] = from THEN to ELSE atoms[i]]

\* text.lastIndexOf("."), counted from 1; 0 when there is none.
LastIndexOfDot(atoms) ==
    LET dots == {i \in 1..Len(atoms) : atoms[i] = "."}
    IN  IF dots = {} THEN 0 ELSE CHOOSE i \in dots : \A j \in dots : j <= i

importPath(modulePath) ==
    LET filePath == ReplaceAll(modulePath, "\\", "/")
        lastDot == LastIndexOfDot(filePath)
    IN  IF lastDot = 0 THEN filePath ELSE SubSeq(filePath, 1, lastDot - 1)

\* The names the generated artifact binds itself.
ArtifactBindings == {"fullApi", "api", "internal", "components"}

\* The list `reserved` of moduleIdentifier.
reserved ==
    {"break", "case", "catch", "class", "const", "continue", "debugger", "default",
     "delete", "do", "else", "export", "extends", "false", "finally", "for", "function",
     "if", "import", "in", "instanceof", "new", "null", "return", "super", "switch",
     "this", "throw", "true", "try", "typeof", "var", "void", "while", "with", "let",
     "static", "yield", "await", "enum", "implements", "interface", "package", "private",
     "protected", "public"}

\* Mutant: only the bindings of the artifact are avoided.
moduleIdentifier_BindingsOnly(modulePath) ==
    LET safeModulePath == ReplaceAll(ReplaceAll(importPath(modulePath), "/", "_"), "-", "_")
    IN  IF safeModulePath \in {<<w>> : w \in ArtifactBindings}
        THEN Append(safeModulePath, "_") ELSE safeModulePath

moduleIdentifier(modulePath) ==
    LET safeModulePath == ReplaceAll(ReplaceAll(importPath(modulePath), "/", "_"), "-", "_")
        renamed == IF safeModulePath \in {<<w>> : w \in ArtifactBindings}
                   THEN Append(safeModulePath, "_") ELSE safeModulePath
    IN  IF renamed \in {<<w>> : w \in reserved} THEN Append(renamed, "_") ELSE renamed

\* The module paths of the model: a file named after each binding of the
\* artifact and after each reserved word, and paths with a directory, a dash,
\* a backslash, an underscore, several dots and no dot at all.
ModuleFile(name) == <<name, ".", "ts">>
PathPool ==
    {ModuleFile(w) : w \in ArtifactBindings \cup reserved \cup {"messages", "users"}}
    \cup {<<"admin", "/", "users", ".", "ts">>, <<"admin", "\\", "users", ".", "ts">>,
          <<"rate", "-", "limit", ".", "ts">>, <<"api", "_", ".", "ts">>,
          <<"api", "-", ".", "ts">>, <<"class", "_", ".", "ts">>,
          <<"api", ".", "d", ".", "ts">>, <<"in", "/", "api", ".", "ts">>,
          <<"components">>, <<"public">>, <<"README">>, <<".", "ts">>, <<>>}

\* The module paths the templates are instantiated with.
ModulePaths ==
    {ModuleFile("messages"), ModuleFile("users"), ModuleFile("components"),
     <<"admin", "/", "users", ".", "ts">>}

\* "${importPath(modulePath)}" and "../${importPath(modulePath)}.js" as the
\* string literals the templates write; for the paths of ModulePaths they are
\* the tokens StrMessages, StrMessagesJs, ... of the scanner.
QuotedKey(modulePath) == "\"" \o Spell(importPath(modulePath)) \o "\""
QuotedFrom(modulePath) == "\"../" \o Spell(importPath(modulePath)) \o ".js\""

(***************************************************************************)
(* Tokens.                                                                 *)
(***************************************************************************)
EOF == "<eof>"
CmtSentinel == "/* replaces the AnyComponents stub */"
CmtMarker == "// no export declare const here"
CmtBrace == "/** {@link api} */"
StrModule == "\"convex/server\""
StrMarker == "\"export declare const components: AnyComponents;\""
StrQuery == "\"query\""
StrPublic == "\"public\""
StrInternal == "\"internal\""
StrMessages == "\"messages\""
StrMessagesJs == "\"../messages.js\""
StrUsers == "\"users\""
StrUsersJs == "\"../users.js\""
StrComponents == "\"components\""
StrComponentsJs == "\"../components.js\""
StrAdminUsers == "\"admin/users\""
StrAdminUsersJs == "\"../admin/users.js\""

Punct == {"{", "}", ":", ";", ",", "<", ">", "|", ".", "=", "(", ")"}
Keywords ==
    {"export", "declare", "const", "import", "namespace", "function", "as", "from", "type",
     "typeof", "*"}
CmtHeader == "/* eslint-disable */ /** Generated api utility. */"
CmtUsage == "/** A utility for referencing Convex functions. */"
CmtUsagePublic == "/** A utility for referencing Convex functions in your public API. */"
CmtUsageInternal == "/** A utility for referencing Convex functions in your internal API. */"
CommentToks ==
    {CmtSentinel, CmtMarker, CmtBrace, CmtHeader, CmtUsage, CmtUsagePublic, CmtUsageInternal}
StringToks ==
    {StrModule, StrMarker, StrQuery, StrPublic, StrInternal,
     StrMessages, StrMessagesJs, StrUsers, StrUsersJs,
     StrComponents, StrComponentsJs, StrAdminUsers, StrAdminUsersJs}

IsIdent(tok) == tok \notin (Punct \cup Keywords \cup CommentToks \cup StringToks \cup {EOF})

Tok(t, i) == IF i >= 1 /\ i <= Len(t) THEN t[i] ELSE EOF

\* Whether the characters of one token contain the needle.
TokIncludes(tok, needle) ==
    CASE needle = "{" -> tok \in {"{", CmtBrace}
      [] needle = "AnyComponents" ->
            tok \in {"AnyComponents", "myAnyComponents", CmtSentinel, StrMarker}
      [] needle = "export declare const" -> tok \in {CmtMarker, StrMarker}
      [] OTHER -> tok = needle

\* String.prototype.indexOf for a pattern made of whole tokens: the first
\* position where it occurs, or 0.
IndexOf(text, pattern) ==
    LET hits == {i \in 1..(Len(text) - Len(pattern) + 1) :
                    SubSeq(text, i, i + Len(pattern) - 1) = pattern}
    IN  IF hits = {} THEN 0 ELSE CHOOSE i \in hits : \A j \in hits : i <= j

\* String.prototype.includes for a needle that lies within one token.
Includes(text, needle) == \E i \in 1..Len(text) : TokIncludes(text[i], needle)

(***************************************************************************)
(* Syntax trees.  Every node kind has the same record shape.               *)
(***************************************************************************)
RefT(names, args) ==
    [kind |-> "ref", names |-> names, args |-> args, members |-> <<>>, sep |-> "semi"]
ObjS(members, sep) ==
    [kind |-> "obj", names |-> <<>>, args |-> <<>>, members |-> members, sep |-> sep]
ObjT(members) == ObjS(members, "semi")
LitT(tok) ==
    [kind |-> "lit", names |-> <<tok>>, args |-> <<>>, members |-> <<>>, sep |-> "semi"]
QueryT(name) ==
    [kind |-> "query", names |-> <<name>>, args |-> <<>>, members |-> <<>>, sep |-> "semi"]
UnionT(alts) ==
    [kind |-> "union", names |-> <<>>, args |-> alts, members |-> <<>>, sep |-> "semi"]
NoType == [kind |-> "none", names |-> <<>>, args |-> <<>>, members |-> <<>>, sep |-> "semi"]
Member(name, type) == [name |-> name, type |-> type]

Decl(name, type, init) ==
    [name |-> name, type |-> type, init |-> init, typeSrc |-> <<>>]
VarStmt(export, declare, decls, cmts) ==
    [kind |-> "var", export |-> export, declare |-> declare, decls |-> decls,
     cmts |-> cmts, src |-> <<>>]
OtherStmt(src, cmts) ==
    [kind |-> "other", export |-> FALSE, declare |-> FALSE, decls |-> <<>>,
     cmts |-> cmts, src |-> src]

(***************************************************************************)
(* Source text of a tree, as an author or a formatter writes it.  The      *)
(* member separator of an object type follows the style of the node:       *)
(* "semi" ends every member with `;`, "comma" with `,`, and "inline"       *)
(* leaves the last member without a separator.                             *)
(***************************************************************************)
RECURSIVE RenderType(_)
RenderType(ty) ==
    CASE ty.kind = "ref" ->
            Join([i \in 1..Len(ty.names) |-> <<ty.names[i]>>], ".")
            \o (IF ty.args = <<>> THEN <<>>
                ELSE <<"<">> \o Join([i \in 1..Len(ty.args) |-> RenderType(ty.args[i])], ",")
                     \o <<">">>)
      [] ty.kind = "obj" ->
            <<"{">>
            \o Concat([i \in 1..Len(ty.members) |->
                  <<ty.members[i].name, ":">> \o RenderType(ty.members[i].type)
                  \o (CASE ty.sep = "comma" -> <<",">>
                        [] ty.sep = "inline" /\ i = Len(ty.members) -> <<>>
                        [] OTHER -> <<";">>)])
            \o <<"}">>
      [] ty.kind = "lit" -> ty.names
      [] ty.kind = "query" -> <<"typeof">> \o ty.names
      [] ty.kind = "union" ->
            Join([i \in 1..Len(ty.args) |-> RenderType(ty.args[i])], "|")
      [] OTHER -> <<>>

RenderDecl(d) ==
    <<d.name>>
    \o (IF d.type = NoType THEN <<>> ELSE <<":">> \o RenderType(d.type))
    \o (IF d.init = <<>> THEN <<>> ELSE <<"=">> \o d.init)

RenderStmt(st) ==
    st.cmts
    \o (IF st.kind = "var"
        THEN (IF st.export THEN <<"export">> ELSE <<>>)
             \o (IF st.declare THEN <<"declare">> ELSE <<>>)
             \o <<"const">>
             \o Join([i \in 1..Len(st.decls) |-> RenderDecl(st.decls[i])], ",")
             \o <<";">>
        ELSE st.src)

Render(doc) == Concat([i \in 1..Len(doc) |-> RenderStmt(doc[i])])

(***************************************************************************)
(* ts.createSourceFile: the parser.  It never fails: a token it cannot     *)
(* place is skipped, and the statement list holds what was recognised.     *)
(* Comments are trivia: the run of comments in front of a statement is     *)
(* kept with it (the printer reads it back from the source text).          *)
(***************************************************************************)
\* The productions of the type grammar, one per `rule`:
\*   "type"     Primary ("|" Primary)*
\*   "primary"  "{" members "}" | string | "typeof" Name | QName ["<" types ">"]
\*   "union"    the alternatives after the first, at a "|"
\*   "types"    Type ("," Type)* ">"
\*   "members"  (Name ":" Type [";" | ","])* "}"
\*   "qname"    ("." Name)*
\* The result is [node, list, next]: the node or the list parsed and the index
\* of the first token after it.
RECURSIVE ParseRule(_, _, _, _)
ParseRule(rule, t, i, acc) ==
    LET tok == Tok(t, i)
        Result(node, list, next) == [node |-> node, list |-> list, next |-> next]
    IN
    CASE rule = "qname" ->
            IF tok = "." /\ IsIdent(Tok(t, i + 1))
            THEN ParseRule("qname", t, i + 2, Append(acc, Tok(t, i + 1)))
            ELSE Result(NoType, acc, i)
      [] rule = "primary" ->
            IF tok = "{"
            THEN LET r == ParseRule("members", t, i + 1, <<>>)
                 IN  Result(ObjT(r.list), <<>>, r.next)
            ELSE IF tok \in StringToks
            THEN Result(LitT(tok), <<>>, i + 1)
            ELSE IF tok = "typeof" /\ IsIdent(Tok(t, i + 1))
            THEN Result(QueryT(Tok(t, i + 1)), <<>>, i + 2)
            ELSE IF IsIdent(tok)
            THEN LET q == ParseRule("qname", t, i + 1, <<tok>>)
                     a == IF Tok(t, q.next) = "<"
                          THEN ParseRule("types", t, q.next + 1, <<>>)
                          ELSE Result(NoType, <<>>, q.next)
                 IN  Result(RefT(q.list, a.list), <<>>, a.next)
            ELSE Result(RefT(<<>>, <<>>), <<>>, i)
      [] rule = "union" ->
            LET p == ParseRule("primary", t, i + 1, <<>>)
                acc2 == Append(acc, p.node)
            IN  IF Tok(t, p.next) = "|"
                THEN ParseRule("union", t, p.next, acc2)
                ELSE Result(UnionT(acc2), <<>>, p.next)
      [] rule = "type" ->
            LET p == ParseRule("primary", t, i, <<>>)
            IN  IF Tok(t, p.next) = "|"
                THEN ParseRule("union", t, p.next, <<p.node>>)
                ELSE p
      [] rule = "types" ->
            LET ty == ParseRule("type", t, i, <<>>)
                acc2 == Append(acc, ty.node)
            IN  IF Tok(t, ty.next) = ","
                THEN ParseRule("types", t, ty.next + 1, acc2)
                ELSE Result(NoType, acc2,
                            IF Tok(t, ty.next) = ">" THEN ty.next + 1 ELSE ty.next)
      [] rule = "members" ->
            IF tok = "}" THEN Result(NoType, acc, i + 1)
            ELSE IF tok = EOF THEN Result(NoType, acc, i)
            ELSE IF (IsIdent(tok) \/ tok \in StringToks) /\ Tok(t, i + 1) = ":"
            THEN LET ty == ParseRule("type", t, i + 2, <<>>)
                     nxt == IF Tok(t, ty.next) \in {";", ","}
                            THEN ty.next + 1 ELSE ty.next
                 IN  ParseRule("members", t, nxt, Append(acc, Member(tok, ty.node)))
            ELSE ParseRule("members", t, i + 1, acc)

ParseType(t, i) == ParseRule("type", t, i, <<>>)

\* First index >= i whose token is in `stops`, or Len(t) + 1.
RECURSIVE ScanTo(_, _, _)
ScanTo(t, i, stops) ==
    IF i > Len(t) \/ t[i] \in stops THEN i ELSE ScanTo(t, i + 1, stops)

\* Index of the `}` closing a block entered at depth `depth`, or Len(t) + 1.
RECURSIVE MatchBrace(_, _, _)
MatchBrace(t, i, depth) ==
    IF i > Len(t) THEN i
    ELSE IF t[i] = "{" THEN MatchBrace(t, i + 1, depth + 1)
    ELSE IF t[i] = "}" THEN (IF depth = 1 THEN i ELSE MatchBrace(t, i + 1, depth - 1))
    ELSE MatchBrace(t, i + 1, depth)

RECURSIVE SkipComments(_, _)
SkipComments(t, i) ==
    IF Tok(t, i) \in CommentToks THEN SkipComments(t, i + 1) ELSE i

\* VariableDeclaration ("," VariableDeclaration)* ";"
RECURSIVE ParseDecls(_, _, _)
ParseDecls(t, i, acc) ==
    IF ~IsIdent(Tok(t, i))
    THEN [list |-> acc, next |-> IF Tok(t, i) = ";" THEN i + 1 ELSE i]
    ELSE
    LET hasType == Tok(t, i + 1) = ":"
        ty == IF hasType THEN ParseType(t, i + 2)
              ELSE [node |-> NoType, list |-> <<>>, next |-> i + 1]
        hasInit == Tok(t, ty.next) = "="
        k == IF hasInit THEN ScanTo(t, ty.next + 1, {",", ";"}) ELSE ty.next
        d == [name |-> Tok(t, i),
              type |-> ty.node,
              init |-> IF hasInit THEN SubSeq(t, ty.next + 1, k - 1) ELSE <<>>,
              typeSrc |-> IF hasType THEN SubSeq(t, i + 2, ty.next - 1) ELSE <<>>]
    IN  IF Tok(t, k) = ","
        THEN ParseDecls(t, k + 1, Append(acc, d))
        ELSE [list |-> Append(acc, d), next |-> IF Tok(t, k) = ";" THEN k + 1 ELSE k]

\* Mutant: the statements inside a namespace or function body are listed with
\* the top-level ones.
RECURSIVE ParseStatements_Descend(_, _, _)
ParseStatements_Descend(t, i, acc) ==
    LET j == SkipComments(t, i)
        cmts == SubSeq(t, i, j - 1)
        j1 == IF Tok(t, j) = "export" THEN j + 1 ELSE j
        j2 == IF Tok(t, j1) = "declare" THEN j1 + 1 ELSE j1
        kw == Tok(t, j2)
        b == ScanTo(t, j2 + 1, {"{", ";"})
    IN  IF j > Len(t) THEN acc
        ELSE IF Tok(t, j) = "}" THEN ParseStatements_Descend(t, j + 1, acc)
        ELSE IF kw = "const"
        THEN LET d == ParseDecls(t, j2 + 1, <<>>)
             IN  ParseStatements_Descend(t, d.next,
                    Append(acc, VarStmt(j1 > j, j2 > j1, d.list, cmts)))
        ELSE IF kw \in {"namespace", "function"} /\ Tok(t, b) = "{"
        THEN ParseStatements_Descend(t, b + 1, acc)
        ELSE LET e == ScanTo(t, j2 + 1, {";"})
             IN  ParseStatements_Descend(t, e + 1, Append(acc, OtherStmt(SubSeq(t, j, e), cmts)))

\* sourceFile.statements
RECURSIVE ParseStatements(_, _, _)
ParseStatements(t, i, acc) ==
    LET j == SkipComments(t, i)
        cmts == SubSeq(t, i, j - 1)
        j1 == IF Tok(t, j) = "export" THEN j + 1 ELSE j
        j2 == IF Tok(t, j1) = "declare" THEN j1 + 1 ELSE j1
        kw == Tok(t, j2)
    IN  IF j > Len(t) THEN acc
        ELSE IF kw = "const"
        THEN LET d == ParseDecls(t, j2 + 1, <<>>)
             IN  ParseStatements(t, d.next,
                    Append(acc, VarStmt(j1 > j, j2 > j1, d.list, cmts)))
        ELSE IF kw \in {"namespace", "function"} /\ Tok(t, ScanTo(t, j2 + 1, {"{", ";"})) = "{"
        THEN LET e == MatchBrace(t, ScanTo(t, j2 + 1, {"{", ";"}) + 1, 1)
             IN  ParseStatements(t, e + 1, Append(acc, OtherStmt(SubSeq(t, j, e), cmts)))
        ELSE LET e == ScanTo(t, j2 + 1, {";"})
             IN  ParseStatements(t, e + 1, Append(acc, OtherStmt(SubSeq(t, j, e), cmts)))

Parse(content) == ParseStatements(content, 1, <<>>)

(***************************************************************************)
(* printer.printNode: the printer.  An object type prints every member     *)
(* with a terminating `;`, whatever the source had; the comments in front  *)
(* of a statement are printed with the statement.                          *)
(***************************************************************************)
RECURSIVE PrintType(_)
PrintType(ty) ==
    CASE ty.kind = "ref" ->
            Join([i \in 1..Len(ty.names) |-> <<ty.names[i]>>], ".")
            \o (IF ty.args = <<>> THEN <<>>
                ELSE <<"<">> \o Join([i \in 1..Len(ty.args) |-> PrintType(ty.args[i])], ",")
                     \o <<">">>)
      [] ty.kind = "obj" ->
            <<"{">>
            \o Concat([i \in 1..Len(ty.members) |->
                  <<ty.members[i].name, ":">> \o PrintType(ty.members[i].type) \o <<";">>])
            \o <<"}">>
      [] ty.kind = "lit" -> ty.names
      [] ty.kind = "query" -> <<"typeof">> \o ty.names
      [] ty.kind = "union" ->
            Join([i \in 1..Len(ty.args) |-> PrintType(ty.args[i])], "|")
      [] OTHER -> <<>>

PrintDecl(d) ==
    <<d.name>>
    \o (IF d.type = NoType THEN <<>> ELSE <<":">> \o PrintType(d.type))
    \o (IF d.init = <<>> THEN <<>> ELSE <<"=">> \o d.init)

PrintStatement(st) ==
    st.cmts
    \o (IF st.export THEN <<"export">> ELSE <<>>)
    \o (IF st.declare THEN <<"declare">> ELSE <<>>)
    \o <<"const">>
    \o Join([i \in 1..Len(st.decls) |-> PrintDecl(st.decls[i])], ",")
    \o <<";">>


(***************************************************************************)
(* componentTypePreservation.ts                                            *)
(***************************************************************************)
\* Mutant: the export modifier is not looked at.
IsExportedVariableStatement_AnyVariable(st) == st.kind = "var"
\* ts.isVariableStatement(statement) &&
\* statement.modifiers?.some((m) => m.kind === ts.SyntaxKind.ExportKeyword)
IsExportedVariableStatement(st) == st.kind = "var" /\ st.export

\* The text of the terminal name of a type reference: the identifier, or the
\* right side of a qualified name.
TypeNameText(ty) == IF ty.names = <<>> THEN "" ELSE ty.names[Len(ty.names)]

\* Mutant: only a bare identifier is compared, a qualified name never matches.
IsAnyComponentsReference_IdentifierOnly(ty) ==
    ty.kind = "ref" /\ ty.names = <<"AnyComponents">>
\* decl.type && ts.isTypeReferenceNode(decl.type) && typeNameText === "AnyComponents"
IsAnyComponentsReference(ty) ==
    ty.kind = "ref" /\ TypeNameText(ty) = "AnyComponents"

\* Mutant: the statement is rebuilt without the `declare` modifier.
DeclareTemplate_NoDeclare(typeText) ==
    <<"export", "const", "components", ":">> \o typeText \o <<";">>
\* `export declare const components: ${typeText};`
DeclareTemplate(typeText) ==
    <<"export", "declare", "const", "components", ":">> \o typeText \o <<";">>

\* Mutant: the initializer of the binding is carried into the statement.
RuntimeDeclaration_WithInitializer(decl) ==
    <<"export", "declare", "const", "components", ":">> \o PrintType(decl.type)
    \o <<"=">> \o decl.init \o <<";">>
\* Mutant: the annotation is taken as written in the source, not printed.
RuntimeDeclaration_SourceText(decl) == DeclareTemplate(decl.typeSrc)
\* The statement rebuilt from the printed type annotation of a runtime binding.
RuntimeDeclaration(decl) == DeclareTemplate(PrintType(decl.type))

\* The loop over statement.declarationList.declarations, from declaration k on:
\* the site of the return statement it reaches and the value returned there, or
\* site "next" when the loop ends without returning.
RECURSIVE ScanDeclarations(_, _)
ScanDeclarations(st, k) ==
    IF k > Len(st.decls) THEN [site |-> "next", value |-> Null]
    ELSE LET decl == st.decls[k] IN
         IF decl.name = "components"
         THEN IF IsAnyComponentsReference(decl.type)
              THEN [site |-> "stub", value |-> Null]
              ELSE IF st.declare
              THEN [site |-> "declare", value |-> Some(PrintStatement(st))]
              ELSE IF decl.type # NoType
              THEN [site |-> "runtime", value |-> Some(RuntimeDeclaration(decl))]
              ELSE ScanDeclarations(st, k + 1)
         ELSE ScanDeclarations(st, k + 1)

\* The loop over sourceFile.statements, from statement i on.
RECURSIVE ScanStatements(_, _)
ScanStatements(sf, i) ==
    IF i > Len(sf) THEN [site |-> "none", value |-> Null]
    ELSE IF IsExportedVariableStatement(sf[i])
    THEN LET r == ScanDeclarations(sf[i], 1)
         IN  IF r.site # "next" THEN r ELSE ScanStatements(sf, i + 1)
    ELSE ScanStatements(sf, i + 1)

\* extractComponentTypes with the return statement that produced the result.
ExtractSite(content) == ScanStatements(Parse(content), 1)

extractComponentTypes(content) == ExtractSite(content).value

\* `!componentDecl`: null and the empty string are falsy.
Falsy(componentDecl) ==
    IF IsNull(componentDecl) THEN TRUE ELSE Val(componentDecl) = <<>>

\* Mutant: the text is not searched for `{`.
hasRealComponentTypes_NoBraceTest(componentDecl) ==
    IF Falsy(componentDecl) THEN FALSE ELSE ~Includes(Val(componentDecl), "AnyComponents")
\* Mutant: null and the empty string are accepted.
hasRealComponentTypes_FalsyIsReal(componentDecl) ==
    IF Falsy(componentDecl) THEN TRUE
    ELSE Includes(Val(componentDecl), "{") /\ ~Includes(Val(componentDecl), "AnyComponents")
\* componentDecl.includes("{") && !componentDecl.includes("AnyComponents")
hasRealComponentTypes(componentDecl) ==
    IF Falsy(componentDecl) THEN FALSE
    ELSE Includes(Val(componentDecl), "{") /\ ~Includes(Val(componentDecl), "AnyComponents")

\* Mutant: the declaration is returned with its name and colon.
RECURSIVE AnnotationOfDecls_Declaration(_, _)
AnnotationOfDecls_Declaration(st, k) ==
    IF k > Len(st.decls) THEN Null
    ELSE IF st.decls[k].name = "components" /\ st.decls[k].type # NoType
    THEN Some(<<"components", ":">> \o PrintType(st.decls[k].type) \o <<";">>)
    ELSE AnnotationOfDecls_Declaration(st, k + 1)

\* Mutant: the name of the declaration is not compared.
RECURSIVE AnnotationOfDecls_AnyName(_, _)
AnnotationOfDecls_AnyName(st, k) ==
    IF k > Len(st.decls) THEN Null
    ELSE IF st.decls[k].type # NoType
    THEN Some(PrintType(st.decls[k].type))
    ELSE AnnotationOfDecls_AnyName(st, k + 1)

\* The first declaration named `components` with a type, over all variable
\* statements of the parsed text.
RECURSIVE AnnotationOfDecls(_, _)
AnnotationOfDecls(st, k) ==
    IF k > Len(st.decls) THEN Null
    ELSE IF st.decls[k].name = "components" /\ st.decls[k].type # NoType
    THEN Some(PrintType(st.decls[k].type))
    ELSE AnnotationOfDecls(st, k + 1)

RECURSIVE AnnotationOfStatements(_, _)
AnnotationOfStatements(sf, i) ==
    IF i > Len(sf) THEN Null
    ELSE IF sf[i].kind = "var" /\ ~IsNull(AnnotationOfDecls(sf[i], 1))
    THEN AnnotationOfDecls(sf[i], 1)
    ELSE AnnotationOfStatements(sf, i + 1)

extractComponentTypeAnnotation(componentDecl) ==
    IF Falsy(componentDecl) THEN Null
    ELSE AnnotationOfStatements(Parse(Val(componentDecl)), 1)

\* Mutant: a search of the text for the phrase `export declare const`.
isDeclarationFile_Substring(content) ==
    \/ Includes(content, "export declare const")
    \/ IndexOf(content, <<"export", "declare", "const">>) # 0
\* The loop over sourceFile.statements of isDeclarationFile.
HasExportDeclareStatement(sf) ==
    \E i \in 1..Len(sf) : sf[i].kind = "var" /\ sf[i].export /\ sf[i].declare

isDeclarationFile(content) == HasExportDeclareStatement(Parse(content))


(***************************************************************************)
(* Input artifacts: the statements an artifact is made of.                 *)
(***************************************************************************)
TStub == RefT(<<"AnyComponents">>, <<>>)
TQualStub == RefT(<<"convex", "AnyComponents">>, <<>>)
TSome == RefT(<<"SomeType">>, <<>>)
TEmpty == ObjT(<<>>)
TFn == RefT(<<"FunctionReference">>, <<LitT(StrQuery), ObjS(<<Member("name", RefT(<<"string">>, <<>>))>>, "inline")>>)
TReal == ObjS(<<Member("rateLimiter", ObjS(<<Member("check", TFn)>>, "inline"))>>, "inline")
TRealComma == ObjS(<<Member("auth", TEmpty), Member("cache", TSome)>>, "comma")
TObjStub == ObjS(<<Member("widgets", TStub)>>, "semi")
TObjName == ObjS(<<Member("myAnyComponents", TEmpty)>>, "inline")
TUnion == UnionT(<<TSome, RefT(<<"null">>, <<>>)>>)
TGenObj == RefT(<<"ComponentTypes">>, <<TEmpty>>)

GenericInit == <<"componentsGeneric", "(", ")">>
\* `{} as any`
ObjectInit == <<"{", "}", "as", "any">>

\* `export declare const components: T;`
Ambient(ty) == VarStmt(TRUE, TRUE, <<Decl("components", ty, <<>>)>>, <<>>)
\* `export const components: T = componentsGeneric();`
Runtime(ty) == VarStmt(TRUE, FALSE, <<Decl("components", ty, GenericInit)>>, <<>>)

AmbientTypes == {TStub, TQualStub, TSome, TEmpty, TReal, TRealComma, TObjStub, TUnion, TGenObj}
RuntimeTypes == {TStub, TQualStub, TSome, TReal, TObjName}

StmtPool ==
    {Ambient(ty) : ty \in AmbientTypes \cup {NoType}}
    \cup {Runtime(ty) : ty \in RuntimeTypes \cup {NoType}}
    \cup {
       \* not exported
       VarStmt(FALSE, TRUE, <<Decl("components", TReal, <<>>)>>, <<>>),
       \* another name
       VarStmt(TRUE, TRUE, <<Decl("someOtherExport", TReal, <<>>)>>, <<>>),
       \* several declarations in one statement
       VarStmt(TRUE, TRUE, <<Decl("api", TEmpty, <<>>), Decl("components", TSome, <<>>)>>, <<>>),
       VarStmt(TRUE, TRUE, <<Decl("api", TStub, <<>>), Decl("components", TReal, <<>>)>>, <<>>),
       VarStmt(TRUE, TRUE, <<Decl("api", TStub, <<>>), Decl("components", TEmpty, <<>>)>>, <<>>),
       VarStmt(TRUE, TRUE, <<Decl("api", TEmpty, <<>>), Decl("components", NoType, <<>>)>>, <<>>),
       \* another initializer
       VarStmt(TRUE, FALSE, <<Decl("components", TReal, ObjectInit)>>, <<>>),
       \* comments in front of a statement
       VarStmt(TRUE, TRUE, <<Decl("components", TReal, <<>>)>>, <<CmtSentinel>>),
       VarStmt(TRUE, TRUE, <<Decl("components", TSome, <<>>)>>, <<CmtBrace>>),
       VarStmt(TRUE, FALSE, <<Decl("api", NoType, <<"anyApi", "as", "any">>)>>, <<CmtMarker>>),
       \* the marker phrase in a string literal
       VarStmt(FALSE, FALSE, <<Decl("example", NoType, <<StrMarker>>)>>, <<>>),
       \* an import of the sentinel name
       OtherStmt(<<"import", "type", "{", "AnyComponents", "}", "from", StrModule, ";">>, <<>>),
       \* nested scopes
       OtherStmt(<<"namespace", "legacy", "{", "export", "declare", "const", "components",
                   ":", "{", "}", ";", "}">>, <<>>),
       OtherStmt(<<"function", "setup", "(", ")", "{", "const", "components", ":", "{", "}",
                   "=", "load", "(", ")", ";", "}">>, <<>>),
       \* text that is no statement
       OtherStmt(<<"}", ")", ";">>, <<>>)
    }

RECURSIVE DocsOfLen(_)
DocsOfLen(n) ==
    IF n = 0 THEN {<<>>}
    ELSE {Append(d, st) : d \in DocsOfLen(n - 1), st \in StmtPool}

Docs == UNION {DocsOfLen(n) : n \in 0..MaxStmts}


(***************************************************************************)
(* codegen_templates/api.js                                                *)
(***************************************************************************)
\* "\nexport declare const components: AnyComponents;"
componentsExportDTS == <<"export", "declare", "const", "components", ":", "AnyComponents", ";">>

FilterApiOf(visibility) ==
    <<"FilterApi", "<", "typeof", "fullApi", ",", "FunctionReference", "<", "any", ",",
      visibility, ">", ">">>

\* apiCodegen(modulePaths, {useTypeScript: false, includeComponentsStub}).DTS with
\* `components` standing for the text of componentsExportDTS.
apiDTS(modulePaths, includeComponentsStub, components) ==
    <<CmtHeader, "import", "type", "{", "ApiFromModules", ",", "FilterApi", ",",
      "FunctionReference">>
    \o (IF includeComponentsStub THEN <<",", "AnyComponents">> ELSE <<>>)
    \o <<"}", "from", StrModule, ";">>
    \o Concat([i \in 1..Len(modulePaths) |->
          <<"import", "type", "*", "as", Spell(moduleIdentifier(modulePaths[i])), "from",
            QuotedFrom(modulePaths[i]), ";">>])
    \o <<CmtUsage, "declare", "const", "fullApi", ":", "ApiFromModules", "<", "{">>
    \o Concat([i \in 1..Len(modulePaths) |->
          <<QuotedKey(modulePaths[i]), ":", "typeof",
            Spell(moduleIdentifier(modulePaths[i])), ",">>])
    \o <<"}", ">", ";">>
    \o <<"export", "declare", "const", "api", ":">> \o FilterApiOf(StrPublic) \o <<";">>
    \o <<"export", "declare", "const", "internal", ":">> \o FilterApiOf(StrInternal) \o <<";">>
    \o (IF includeComponentsStub THEN components ELSE <<>>)

apiCodegenDTS(modulePaths, includeComponentsStub) ==
    apiDTS(modulePaths, includeComponentsStub, componentsExportDTS)

\* opts?.name ?? false
OrFalse(option) == IF IsNull(option) THEN FALSE ELSE Val(option)

\* The options of apiCodegen; an option left out is Null.
Opts(useTypeScript, includeComponentsStub, preservedComponentTypes) ==
    [useTypeScript |-> useTypeScript, includeComponentsStub |-> includeComponentsStub,
     preservedComponentTypes |-> preservedComponentTypes]

\* "\nimport { componentsGeneric } from "convex/server";
\*  export const components = componentsGeneric();"
componentsExportJS ==
    <<"import", "{", "componentsGeneric", "}", "from", StrModule, ";",
      "export", "const", "components", "=", "componentsGeneric", "(", ")", ";">>

\* "\n\nexport const components: AnyComponents = componentsGeneric();"
componentsExportTS ==
    <<"export", "const", "components", ":", "AnyComponents", "=",
      "componentsGeneric", "(", ")", ";">>

apiJS(includeComponentsStub) ==
    <<CmtHeader, "import", "{", "anyApi", "}", "from", StrModule, ";">>
    \o <<CmtUsage, "export", "const", "api", "=", "anyApi", ";">>
    \o <<"export", "const", "internal", "=", "anyApi", ";">>
    \o (IF includeComponentsStub THEN componentsExportJS ELSE <<>>)

apiTS(modulePaths, includeComponentsStub) ==
    <<CmtHeader, "import", "type", "{", "ApiFromModules", ",", "FilterApi", ",",
      "FunctionReference">>
    \o (IF includeComponentsStub THEN <<",", "AnyComponents">> ELSE <<>>)
    \o <<"}", "from", StrModule, ";">>
    \o <<"import", "{", "anyApi">>
    \o (IF includeComponentsStub THEN <<",", "componentsGeneric">> ELSE <<>>)
    \o <<"}", "from", StrModule, ";">>
    \o Concat([i \in 1..Len(modulePaths) |->
          <<"import", "type", "*", "as", Spell(moduleIdentifier(modulePaths[i])), "from",
            QuotedFrom(modulePaths[i]), ";">>])
    \o <<"const", "fullApi", ":", "ApiFromModules", "<", "{">>
    \o Concat([i \in 1..Len(modulePaths) |->
          <<QuotedKey(modulePaths[i]), ":", "typeof",
            Spell(moduleIdentifier(modulePaths[i])), ",">>])
    \o <<"}", ">", "=", "anyApi", "as", "any", ";">>
    \o <<CmtUsagePublic, "export", "const", "api", ":">> \o FilterApiOf(StrPublic)
    \o <<"=", "anyApi", "as", "any", ";">>
    \o <<CmtUsageInternal, "export", "const", "internal", ":">> \o FilterApiOf(StrInternal)
    \o <<"=", "anyApi", "as", "any", ";">>
    \o (IF includeComponentsStub THEN componentsExportTS ELSE <<>>)

\* Mutant: the stub is written whether or not it was asked for.
apiCodegen_AlwaysStub(modulePaths, opts) ==
    IF ~OrFalse(opts.useTypeScript)
    THEN [DTS |-> Some(apiDTS(modulePaths, TRUE, componentsExportDTS)),
          JS |-> Some(apiJS(TRUE)), TS |-> Null]
    ELSE [DTS |-> Null, JS |-> Null, TS |-> Some(apiTS(modulePaths, TRUE))]
\* apiCodegen(modulePaths, opts): { DTS, JS } or { TS }; a property the result
\* does not have is Null.  opts.preservedComponentTypes is not read.
apiCodegen(modulePaths, opts) ==
    LET useTypeScript == OrFalse(opts.useTypeScript)
        includeComponentsStub == OrFalse(opts.includeComponentsStub)
    IN  IF ~useTypeScript
        THEN [DTS |-> Some(apiDTS(modulePaths, includeComponentsStub, componentsExportDTS)),
              JS |-> Some(apiJS(includeComponentsStub)), TS |-> Null]
        ELSE [DTS |-> Null, JS |-> Null,
              TS |-> Some(apiTS(modulePaths, includeComponentsStub))]

(***************************************************************************)
(* The offline post-pass.                                                  *)
(***************************************************************************)
\* Mutant: the pattern never matches the generated stub.
ReplaceStub_NoMatch(generatedWithStub, preserved) == generatedWithStub
\* generatedWithStub.replace("export declare const components: AnyComponents;", preserved)
ReplaceStub(generatedWithStub, preserved) ==
    LET i == IndexOf(generatedWithStub, componentsExportDTS)
    IN  IF i = 0 THEN generatedWithStub
        ELSE SubSeq(generatedWithStub, 1, i - 1) \o preserved
             \o SubSeq(generatedWithStub, i + Len(componentsExportDTS), Len(generatedWithStub))

\* The declaration kept from the previous artifact: componentTypes when
\* hasRealComponentTypes accepts it.
PreservedComponentTypes(existing) ==
    IF IsNull(existing) THEN Null
    ELSE LET componentTypes == extractComponentTypes(Val(existing))
         IN  IF hasRealComponentTypes(componentTypes) THEN componentTypes ELSE Null

\* The artifact an offline regeneration writes over `existing`.
OfflineArtifact(existing, modulePaths) ==
    LET preserved == PreservedComponentTypes(existing)
        generatedWithStub == apiCodegenDTS(modulePaths, TRUE)
    IN  IF IsNull(preserved) THEN generatedWithStub
        ELSE ReplaceStub(generatedWithStub, Val(preserved))

\* The artifact of a regeneration against the backend: the same bindings, with
\* the component types the deployment reports.
OnlineTypes == {TEmpty, TReal, TRealComma, TObjName}
ModulePathLists ==
    {<<>>, <<ModuleFile("messages")>>, <<ModuleFile("messages"), ModuleFile("users")>>}

OnlineArtifact(form, ty, modulePaths) ==
    IF form = "dts"
    THEN apiDTS(modulePaths, TRUE, RenderStmt(Ambient(ty)))
    ELSE RenderStmt(VarStmt(TRUE, FALSE, <<Decl("api", RefT(<<"FilterApi">>, <<QueryT("fullApi")>>), <<"anyApi", "as", "any">>)>>, <<>>))
         \o RenderStmt(Runtime(ty))


(***************************************************************************)
(* State.                                                                  *)
(*                                                                         *)
(* Calls of the four operations on one input artifact:                     *)
(*   doc, content   the artifact and its text                              *)
(*   pc             the calls made so far                                  *)
(*   site, decl     extractComponentTypes(content) and the return reached  *)
(*   real           hasRealComponentTypes(decl)                            *)
(*   contentReal    hasRealComponentTypes(content)                         *)
(*   annot          extractComponentTypeAnnotation(decl)                   *)
(*   contentAnnot   extractComponentTypeAnnotation(content)                *)
(*   again          extractComponentTypes(decl)                            *)
(*   rewrapped      extractComponentTypes of the re-wrapped annotation     *)
(*   ambient        isDeclarationFile(content)                             *)
(*   declAmbient    isDeclarationFile(decl), for a decl that is not null   *)
(*                                                                         *)
(* Regenerations of the generated directory:                               *)
(*   apiDts, apiTs  the files _generated/api.d.ts and _generated/api.ts    *)
(*   runs           regenerations so far                                   *)
(*   lastOp         the kind of the last regeneration                      *)
(*   existing       the previous artifact the last offline run read        *)
(*   generated      the fresh artifact of the last offline run             *)
(*                                                                         *)
(* Concurrent callers of the four operations, per caller:                  *)
(*   callOp         the operation called                                   *)
(*   callInput      its argument                                           *)
(*   callPc         "idle", "called", "parsed" or "returned"               *)
(*   callSourceFile the local `sourceFile` of the call                     *)
(*   callResult     the value returned                                     *)
(*   calls          calls begun so far                                     *)
(*                                                                         *)
(* One call of apiCodegen and the classification of what it returns:       *)
(*   cgModulePaths  the argument modulePaths                               *)
(*   cgOpts         the argument opts                                      *)
(*   cgPc           "start", "generated" or "classified"                   *)
(*   cgOut          the value returned: DTS, JS and TS, Null when absent   *)
(*   cgDecl         extractComponentTypes of each output                   *)
(*   cgAmbient      isDeclarationFile of each output                       *)
(*                                                                         *)
(* Calls of importPath and moduleIdentifier on one module path:            *)
(*   idPath         the module path                                        *)
(*   imported       importPath(idPath) once called                         *)
(*   identifier     moduleIdentifier(idPath) once called                   *)
(*                                                                         *)
(* One run of runCodegen:                                                  *)
(*   rcOptions      the argument options                                   *)
(*   rcConfig       projectConfig.codegen                                  *)
(*   rcSelection    deploymentSelection.kind                               *)
(*   rcPc           the position of the run                                *)
(*   rcInitialised  doInitCodegen was called                               *)
(*   rcLog          the messages logged                                    *)
(*   rcCodegen      the options doCodegen was called with, or Null         *)
(*   rcCredentials  deployment credentials were loaded                     *)
(*   rcPush         a push to the backend was started                      *)
(***************************************************************************)
VARIABLES doc, content, pc, site, decl, real, contentReal, annot, contentAnnot, again, rewrapped,
          ambient, declAmbient,
          apiDts, apiTs, runs, lastOp, existing, generated,
          callOp, callInput, callPc, callSourceFile, callResult, calls,
          cgModulePaths, cgOpts, cgPc, cgOut, cgDecl, cgAmbient,
          idPath, imported, identifier,
          rcOptions, rcConfig, rcSelection, rcPc, rcInitialised, rcLog, rcCodegen,
          rcCredentials, rcPush

callVars ==
    <<doc, content, pc, site, decl, real, contentReal, annot, contentAnnot, again, rewrapped,
      ambient, declAmbient>>
runVars == <<apiDts, apiTs, runs, lastOp, existing, generated>>
concVars == <<callOp, callInput, callPc, callSourceFile, callResult, calls>>
cgVars == <<cgModulePaths, cgOpts, cgPc, cgOut, cgDecl, cgAmbient>>
idVars == <<idPath, imported, identifier>>
rcVars == <<rcOptions, rcConfig, rcSelection, rcPc, rcInitialised, rcLog, rcCodegen,
            rcCredentials, rcPush>>
cliVars == <<cgVars, idVars, rcVars>>
vars == <<doc, content, pc, site, decl, real, contentReal, annot, contentAnnot, again,
          rewrapped, ambient, declAmbient,
          apiDts, apiTs, runs, lastOp, existing, generated,
          callOp, callInput, callPc, callSourceFile, callResult, calls,
          cgModulePaths, cgOpts, cgPc, cgOut, cgDecl, cgAmbient,
          idPath, imported, identifier,
          rcOptions, rcConfig, rcSelection, rcPc, rcInitialised, rcLog, rcCodegen,
          rcCredentials, rcPush>>

\* The callers that run concurrently.
Callers == {1, 2}

NoCalls ==
    /\ pc = "start"
    /\ site = "none"
    /\ decl = Null
    /\ real = FALSE
    /\ contentReal = FALSE
    /\ annot = Null
    /\ contentAnnot = Null
    /\ again = Null
    /\ rewrapped = Null
    /\ ambient = FALSE
    /\ declAmbient = FALSE

NoRuns ==
    /\ apiDts = Null
    /\ apiTs = Null
    /\ runs = 0
    /\ lastOp = "none"
    /\ existing = Null
    /\ generated = <<>>

AllIdle ==
    /\ callOp = [c \in Callers |-> "none"]
    /\ callInput = [c \in Callers |-> Null]
    /\ callPc = [c \in Callers |-> "idle"]
    /\ callSourceFile = [c \in Callers |-> <<>>]
    /\ callResult = [c \in Callers |-> Null]
    /\ calls = 0

Outputs == {"DTS", "JS", "TS"}

NoCodegen ==
    /\ cgModulePaths = <<>>
    /\ cgOpts = Opts(Null, Null, Null)
    /\ cgPc = "start"
    /\ cgOut = [DTS |-> Null, JS |-> Null, TS |-> Null]
    /\ cgDecl = [f \in Outputs |-> Null]
    /\ cgAmbient = [f \in Outputs |-> FALSE]

NoIdentifiers ==
    /\ imported = Null
    /\ identifier = Null

NoRunCodegen ==
    /\ rcOptions = [offline |-> FALSE, systemUdfs |-> FALSE, init |-> FALSE]
    /\ rcConfig = [staticApi |-> FALSE, staticDataModel |-> FALSE]
    /\ rcSelection = "existingDeployment"
    /\ rcPc = "start"
    /\ rcInitialised = FALSE
    /\ rcLog = <<>>
    /\ rcCodegen = Null
    /\ rcCredentials = FALSE
    /\ rcPush = FALSE

NoCli ==
    /\ NoCodegen
    /\ idPath = <<>>
    /\ NoIdentifiers
    /\ NoRunCodegen


Init ==
    /\ doc \in Docs
    /\ content = Render(doc)
    /\ NoCalls
    /\ NoRuns
    /\ AllIdle
    /\ NoCli

ExtractComponentTypes ==
    /\ pc = "start"
    /\ site' = ExtractSite(content).site
    /\ decl' = extractComponentTypes(content)
    /\ pc' = "extracted"
    /\ UNCHANGED <<doc, content, real, contentReal, annot, contentAnnot, again, rewrapped, ambient, declAmbient>>
    /\ UNCHANGED runVars
    /\ UNCHANGED concVars
    /\ UNCHANGED cliVars

HasRealComponentTypes ==
    /\ pc = "extracted"
    /\ real' = hasRealComponentTypes(decl)
    /\ contentReal' = hasRealComponentTypes(Some(content))
    /\ pc' = "classified"
    /\ UNCHANGED <<doc, content, site, decl, annot, contentAnnot, again, rewrapped, ambient, declAmbient>>
    /\ UNCHANGED runVars
    /\ UNCHANGED concVars
    /\ UNCHANGED cliVars

ExtractComponentTypeAnnotation ==
    /\ pc = "classified"
    /\ annot' = extractComponentTypeAnnotation(decl)
    /\ contentAnnot' = extractComponentTypeAnnotation(Some(content))
    /\ pc' = "annotated"
    /\ UNCHANGED <<doc, content, site, decl, real, contentReal, again, rewrapped, ambient, declAmbient>>
    /\ UNCHANGED runVars
    /\ UNCHANGED concVars
    /\ UNCHANGED cliVars

\* Extraction applied to its own results: to the declaration, and to the
\* annotation wrapped as `export declare const components: <annotation>;`.
ReExtract ==
    /\ pc = "annotated"
    /\ again' = IF IsNull(decl) THEN Null ELSE extractComponentTypes(Val(decl))
    /\ rewrapped' = IF IsNull(annot) THEN Null
                    ELSE extractComponentTypes(DeclareTemplate(Val(annot)))
    /\ pc' = "reextracted"
    /\ UNCHANGED <<doc, content, site, decl, real, contentReal, annot, contentAnnot, ambient, declAmbient>>
    /\ UNCHANGED runVars
    /\ UNCHANGED concVars
    /\ UNCHANGED cliVars

IsDeclarationFile ==
    /\ pc = "reextracted"
    /\ ambient' = isDeclarationFile(content)
    /\ declAmbient' = IF IsNull(decl) THEN FALSE ELSE isDeclarationFile(Val(decl))
    /\ pc' = "done"
    /\ UNCHANGED <<doc, content, site, decl, real, contentReal, annot, contentAnnot, again, rewrapped>>
    /\ UNCHANGED runVars
    /\ UNCHANGED concVars
    /\ UNCHANGED cliVars

Next ==
    \/ ExtractComponentTypes
    \/ HasRealComponentTypes
    \/ ExtractComponentTypeAnnotation
    \/ ReExtract
    \/ IsDeclarationFile

Spec == Init /\ [][Next]_vars

(***************************************************************************)
(* Regenerations.                                                          *)
(***************************************************************************)
PipelineInit ==
    /\ doc = <<>>
    /\ content = <<>>
    /\ NoCalls
    /\ NoRuns
    /\ AllIdle
    /\ NoCli

\* A regeneration against the backend writes the artifact in one of its two
\* forms and removes the other.
OnlineRegen ==
    /\ runs < MaxRuns
    /\ \E form \in {"dts", "ts"}, ty \in OnlineTypes, modulePaths \in ModulePathLists :
          /\ apiDts' = IF form = "dts" THEN Some(OnlineArtifact(form, ty, modulePaths)) ELSE Null
          /\ apiTs' = IF form = "ts" THEN Some(OnlineArtifact(form, ty, modulePaths)) ELSE Null
    /\ runs' = runs + 1
    /\ lastOp' = "online"
    /\ UNCHANGED <<existing, generated>>
    /\ UNCHANGED callVars
    /\ UNCHANGED concVars
    /\ UNCHANGED cliVars

\* The previous artifact: api.d.ts when it exists, api.ts otherwise.
ExistingArtifact == IF ~IsNull(apiDts) THEN apiDts ELSE apiTs

\* `convex codegen --offline`: read the previous artifact, keep its component
\* types when they are real, generate, re-inject, write api.d.ts.
OfflineRegen ==
    /\ runs < MaxRuns
    /\ \E modulePaths \in ModulePathLists :
          /\ generated' = apiCodegenDTS(modulePaths, TRUE)
          /\ apiDts' = Some(OfflineArtifact(ExistingArtifact, modulePaths))
    /\ existing' = ExistingArtifact
    /\ apiTs' = Null
    /\ runs' = runs + 1
    /\ lastOp' = "offline"
    /\ UNCHANGED callVars
    /\ UNCHANGED concVars
    /\ UNCHANGED cliVars

PipelineNext ==
    \/ OnlineRegen
    \/ OfflineRegen

PipelineSpec == PipelineInit /\ [][PipelineNext]_vars

(***************************************************************************)
(* Concurrent callers.  A call of one of the three parsing operations      *)
(* creates its source file, then scans it and returns; a call of           *)
(* hasRealComponentTypes, and a call of extractComponentTypeAnnotation     *)
(* with a falsy argument, returns without parsing.                         *)
(***************************************************************************)
Operations ==
    {"extractComponentTypes", "hasRealComponentTypes", "extractComponentTypeAnnotation",
     "isDeclarationFile"}

\* The texts the callers pass.
CallTexts ==
    {<<>>,
     Render(<<Ambient(TReal)>>),
     Render(<<Ambient(TStub)>>),
     Render(<<Runtime(TSome)>>),
     Render(<<Runtime(NoType), Ambient(TEmpty)>>)}

\* The arguments of an operation: a text, or null where the parameter is
\* `string | null`.
ArgumentsOf(op) ==
    {Some(text) : text \in CallTexts}
    \cup (IF op \in {"hasRealComponentTypes", "extractComponentTypeAnnotation"}
          THEN {Null} ELSE {})

\* The call reaches ts.createSourceFile.
Parses(op, input) ==
    /\ op # "hasRealComponentTypes"
    /\ ~(op = "extractComponentTypeAnnotation" /\ Falsy(input))

\* Mutant: the source file is a variable of the module, the one of caller 1.
SourceFileOf_ModuleLevel(files, c) == files[1]
\* `const sourceFile = ts.createSourceFile(...)`: local to the call.
SourceFileOf(files, c) == files[c]

\* The value an operation returns after scanning source file sf.
ScanResult(op, sf) ==
    CASE op = "extractComponentTypes" -> ScanStatements(sf, 1).value
      [] op = "extractComponentTypeAnnotation" -> AnnotationOfStatements(sf, 1)
      [] op = "isDeclarationFile" -> HasExportDeclareStatement(sf)

BeginCall(c) ==
    /\ callPc[c] = "idle"
    /\ calls < MaxCalls
    /\ \E op \in Operations : \E input \in ArgumentsOf(op) :
          /\ callOp' = [callOp EXCEPT ![c] = op]
          /\ callInput' = [callInput EXCEPT ![c] = input]
    /\ callPc' = [callPc EXCEPT ![c] = "called"]
    /\ calls' = calls + 1
    /\ UNCHANGED <<callSourceFile, callResult>>
    /\ UNCHANGED callVars
    /\ UNCHANGED runVars
    /\ UNCHANGED cliVars

CreateSourceFile(c) ==
    /\ callPc[c] = "called"
    /\ Parses(callOp[c], callInput[c])
    /\ callSourceFile' = [callSourceFile EXCEPT ![c] = Parse(Val(callInput[c]))]
    /\ callPc' = [callPc EXCEPT ![c] = "parsed"]
    /\ UNCHANGED <<callOp, callInput, callResult, calls>>
    /\ UNCHANGED callVars
    /\ UNCHANGED runVars
    /\ UNCHANGED cliVars

ReturnCall(c) ==
    /\ \/ /\ callPc[c] = "parsed"
          /\ callResult' =
                [callResult EXCEPT
                    ![c] = Some(ScanResult(callOp[c], SourceFileOf(callSourceFile, c)))]
       \/ /\ callPc[c] = "called"
          /\ callOp[c] = "hasRealComponentTypes"
          /\ callResult' =
                [callResult EXCEPT ![c] = Some(hasRealComponentTypes(callInput[c]))]
       \/ /\ callPc[c] = "called"
          /\ callOp[c] = "extractComponentTypeAnnotation"
          /\ Falsy(callInput[c])
          /\ callResult' = [callResult EXCEPT ![c] = Some(Null)]
    /\ callPc' = [callPc EXCEPT ![c] = "returned"]
    /\ UNCHANGED <<callOp, callInput, callSourceFile, calls>>
    /\ UNCHANGED callVars
    /\ UNCHANGED runVars
    /\ UNCHANGED cliVars

\* The caller takes the result; the locals of the call are gone.
EndCall(c) ==
    /\ callPc[c] = "returned"
    /\ callPc' = [callPc EXCEPT ![c] = "idle"]
    /\ callOp' = [callOp EXCEPT ![c] = "none"]
    /\ callInput' = [callInput EXCEPT ![c] = Null]
    /\ callSourceFile' = [callSourceFile EXCEPT ![c] = <<>>]
    /\ callResult' = [callResult EXCEPT ![c] = Null]
    /\ UNCHANGED calls
    /\ UNCHANGED callVars
    /\ UNCHANGED runVars
    /\ UNCHANGED cliVars

ConcurrentInit ==
    /\ doc = <<>>
    /\ content = <<>>
    /\ NoCalls
    /\ NoRuns
    /\ AllIdle
    /\ NoCli

ConcurrentNext ==
    \E c \in Callers :
        \/ BeginCall(c)
        \/ CreateSourceFile(c)
        \/ ReturnCall(c)
        \/ EndCall(c)

ConcurrentSpec == ConcurrentInit /\ [][ConcurrentNext]_vars

(***************************************************************************)
(* One call of apiCodegen, and the extractor applied to what it returns.   *)
(***************************************************************************)
RECURSIVE ModuleListsOfLen(_)
ModuleListsOfLen(n) ==
    IF n = 0 THEN {<<>>}
    ELSE {Append(l, p) : l \in ModuleListsOfLen(n - 1), p \in ModulePaths}

\* The declaration a previous artifact can hand over.
PreservedTexts == {RenderStmt(Ambient(TReal))}

OptsPool ==
    {Opts(ts, stub, preserved) :
        ts \in {Null, Some(FALSE), Some(TRUE)},
        stub \in {Null, Some(FALSE), Some(TRUE)},
        preserved \in {Null} \cup {Some(text) : text \in PreservedTexts}}

CodegenInit ==
    /\ doc = <<>>
    /\ content = <<>>
    /\ NoCalls
    /\ NoRuns
    /\ AllIdle
    /\ cgModulePaths \in UNION {ModuleListsOfLen(n) : n \in 0..MaxModules}
    /\ cgOpts \in OptsPool
    /\ cgPc = "start"
    /\ cgOut = [DTS |-> Null, JS |-> Null, TS |-> Null]
    /\ cgDecl = [f \in Outputs |-> Null]
    /\ cgAmbient = [f \in Outputs |-> FALSE]
    /\ idPath = <<>>
    /\ NoIdentifiers
    /\ NoRunCodegen

ApiCodegen ==
    /\ cgPc = "start"
    /\ cgOut' = apiCodegen(cgModulePaths, cgOpts)
    /\ cgPc' = "generated"
    /\ UNCHANGED <<cgModulePaths, cgOpts, cgDecl, cgAmbient>>
    /\ UNCHANGED <<callVars, runVars, concVars, idVars, rcVars>>

\* extractComponentTypes on each output of the call.
ExtractFromOutput ==
    /\ cgPc = "generated"
    /\ cgDecl' = [f \in Outputs |->
                    IF IsNull(cgOut[f]) THEN Null ELSE extractComponentTypes(Val(cgOut[f]))]
    /\ cgPc' = "extracted"
    /\ UNCHANGED <<cgModulePaths, cgOpts, cgOut, cgAmbient>>
    /\ UNCHANGED <<callVars, runVars, concVars, idVars, rcVars>>

\* isDeclarationFile on each output of the call.
IsDeclarationFileOfOutput ==
    /\ cgPc = "extracted"
    /\ cgAmbient' = [f \in Outputs |->
                       IF IsNull(cgOut[f]) THEN FALSE ELSE isDeclarationFile(Val(cgOut[f]))]
    /\ cgPc' = "classified"
    /\ UNCHANGED <<cgModulePaths, cgOpts, cgOut, cgDecl>>
    /\ UNCHANGED <<callVars, runVars, concVars, idVars, rcVars>>

CodegenNext ==
    \/ ApiCodegen
    \/ ExtractFromOutput
    \/ IsDeclarationFileOfOutput

CodegenSpec == CodegenInit /\ [][CodegenNext]_vars

(***************************************************************************)
(* importPath and moduleIdentifier applied to one module path.             *)
(***************************************************************************)
IdentifierInit ==
    /\ doc = <<>>
    /\ content = <<>>
    /\ NoCalls
    /\ NoRuns
    /\ AllIdle
    /\ NoCodegen
    /\ idPath \in PathPool
    /\ NoIdentifiers
    /\ NoRunCodegen

ImportPath ==
    /\ IsNull(imported)
    /\ imported' = Some(importPath(idPath))
    /\ UNCHANGED <<idPath, identifier>>
    /\ UNCHANGED <<callVars, runVars, concVars, cgVars, rcVars>>

ModuleIdentifier ==
    /\ IsNull(identifier)
    /\ identifier' = Some(moduleIdentifier(idPath))
    /\ UNCHANGED <<idPath, imported>>
    /\ UNCHANGED <<callVars, runVars, concVars, cgVars, rcVars>>

IdentifierNext ==
    \/ ImportPath
    \/ ModuleIdentifier

IdentifierSpec == IdentifierInit /\ [][IdentifierNext]_vars

(***************************************************************************)
(* runCodegen (cli/lib/components.ts).                                     *)
(***************************************************************************)
RunOptions == [offline : BOOLEAN, systemUdfs : BOOLEAN, init : BOOLEAN]
CodegenConfigs == [staticApi : BOOLEAN, staticDataModel : BOOLEAN]
DeploymentSelections == {"existingDeployment", "preview"}

MsgOffline == "Offline mode: Generating types from local files"
MsgStaticIgnored == "Static codegen config ignored in offline mode"
MsgFinished == "Types generated successfully (offline mode)"

\* Mutant: only --offline routes to the local codegen.
UseLocalCodegen_OfflineOnly(options) == options.offline
\* if (options.offline || options.systemUdfs)
UseLocalCodegen(options) == options.offline \/ options.systemUdfs

RunInit ==
    /\ doc = <<>>
    /\ content = <<>>
    /\ NoCalls
    /\ NoRuns
    /\ AllIdle
    /\ NoCodegen
    /\ idPath = <<>>
    /\ NoIdentifiers
    /\ rcOptions \in RunOptions
    /\ rcConfig \in CodegenConfigs
    /\ rcSelection \in DeploymentSelections
    /\ rcPc = "start"
    /\ rcInitialised = FALSE
    /\ rcLog = <<>>
    /\ rcCodegen = Null
    /\ rcCredentials = FALSE
    /\ rcPush = FALSE

\* const { configPath, projectConfig } = await readProjectConfig(ctx);
ReadProjectConfig ==
    /\ rcPc = "start"
    /\ rcPc' = "configured"
    /\ UNCHANGED <<rcOptions, rcConfig, rcSelection, rcInitialised, rcLog, rcCodegen,
                   rcCredentials, rcPush>>
    /\ UNCHANGED <<callVars, runVars, concVars, cgVars, idVars>>

\* if (options.init) await doInitCodegen(...)
DoInitCodegen ==
    /\ rcPc = "configured"
    /\ rcInitialised' = rcOptions.init
    /\ rcPc' = "routing"
    /\ UNCHANGED <<rcOptions, rcConfig, rcSelection, rcLog, rcCodegen, rcCredentials, rcPush>>
    /\ UNCHANGED <<callVars, runVars, concVars, cgVars, idVars>>

\* The branch on the flags, with the messages of the offline branch.
RouteCodegen ==
    /\ rcPc = "routing"
    /\ IF UseLocalCodegen(rcOptions)
       THEN /\ rcLog' = rcLog
                  \o (IF rcOptions.offline THEN <<MsgOffline>> ELSE <<>>)
                  \o (IF rcOptions.offline /\ (rcConfig.staticApi \/ rcConfig.staticDataModel)
                      THEN <<MsgStaticIgnored>> ELSE <<>>)
            /\ rcPc' = "local"
       ELSE /\ rcLog' = rcLog
            /\ rcPc' = "backend"
    /\ UNCHANGED <<rcOptions, rcConfig, rcSelection, rcInitialised, rcCodegen,
                   rcCredentials, rcPush>>
    /\ UNCHANGED <<callVars, runVars, concVars, cgVars, idVars>>

\* await doCodegen(ctx, functionsDirectoryPath, options.typecheck, {...});
\* logFinishedStep(...); return;
DoCodegen ==
    /\ rcPc = "local"
    /\ rcCodegen' = Some([offline |-> rcOptions.offline])
    /\ rcLog' = Append(rcLog, MsgFinished)
    /\ rcPc' = "finished"
    /\ UNCHANGED <<rcOptions, rcConfig, rcSelection, rcInitialised, rcCredentials, rcPush>>
    /\ UNCHANGED <<callVars, runVars, concVars, cgVars, idVars>>

\* The backend flow: a preview deployment is refused, otherwise the
\* credentials of the selected deployment are loaded.
LoadDeploymentCredentials ==
    /\ rcPc = "backend"
    /\ IF rcSelection = "preview"
       THEN /\ rcPc' = "crashed"
            /\ UNCHANGED rcCredentials
       ELSE /\ rcCredentials' = TRUE
            /\ rcPc' = "credentials"
    /\ UNCHANGED <<rcOptions, rcConfig, rcSelection, rcInitialised, rcLog, rcCodegen, rcPush>>
    /\ UNCHANGED <<callVars, runVars, concVars, cgVars, idVars>>

\* The backend flow: startPush, then the codegen from its analysis.
StartPush ==
    /\ rcPc = "credentials"
    /\ rcPush' = TRUE
    /\ rcPc' = "finished"
    /\ UNCHANGED <<rcOptions, rcConfig, rcSelection, rcInitialised, rcLog, rcCodegen,
                   rcCredentials>>
    /\ UNCHANGED <<callVars, runVars, concVars, cgVars, idVars>>

RunNext ==
    \/ ReadProjectConfig
    \/ DoInitCodegen
    \/ RouteCodegen
    \/ DoCodegen
    \/ LoadDeploymentCredentials
    \/ StartPush

\* Every await of the run resolves: a step that can be taken is taken.
RunSpec == RunInit /\ [][RunNext]_vars /\ WF_vars(RunNext)



(***************************************************************************)
(* What an artifact holds, read off the artifact as it was written.        *)
(***************************************************************************)
\* The exported top-level bindings named `components`: <<statement, declaration>>.
Bindings(d) ==
    UNION {{<<i, k>> : k \in {k \in 1..Len(d[i].decls) : d[i].decls[k].name = "components"}} :
              i \in {i \in 1..Len(d) : d[i].kind = "var" /\ d[i].export}}

HasBinding(d) == Bindings(d) # {}

\* The first of them in source order.
FirstBinding(d) ==
    CHOOSE b \in Bindings(d) :
        \A c \in Bindings(d) : b[1] < c[1] \/ (b[1] = c[1] /\ b[2] <= c[2])

FirstStmt(d) == d[FirstBinding(d)[1]]
FirstType(d) == d[FirstBinding(d)[1]].decls[FirstBinding(d)[2]].type

\* A type reference whose terminal name is the sentinel.
SentinelReference(ty) ==
    ty.kind = "ref" /\ ty.names # <<>> /\ ty.names[Len(ty.names)] = "AnyComponents"

Classified == pc \in {"classified", "annotated", "reextracted", "done"}
ReExtracted == pc \in {"reextracted", "done"}

(***************************************************************************)
(* Claims.                                                                 *)
(***************************************************************************)

\* C2: every artifact whose first exported top-level `components` binding has
\* an object type literal as its annotation is classified Real:
\* extractComponentTypes returns a declaration and hasRealComponentTypes
\* accepts it, wherever else the name AnyComponents appears.
C2_ObjectLiteralIsReal ==
    (Classified /\ HasBinding(doc) /\ FirstType(doc).kind = "obj")
        => (~IsNull(decl) /\ real)

\* C3: when the first exported top-level `components` binding is annotated
\* with a type reference whose terminal name is AnyComponents, bare or
\* qualified, in the ambient or the runtime form, extractComponentTypes
\* returns null from its stub branch.
C3_SentinelIsStub ==
    (pc # "start" /\ HasBinding(doc) /\ SentinelReference(FirstType(doc)))
        => (IsNull(decl) /\ site = "stub")

\* C3 witness: extraction has run on a runtime-form binding annotated with the
\* qualified reference convex.AnyComponents.
C3_Witness ==
    /\ pc = "extracted"
    /\ HasBinding(doc)
    /\ FirstType(doc) = TQualStub
    /\ ~FirstStmt(doc).declare
    /\ IsNull(decl)

\* C5: an artifact without an exported top-level variable binding named
\* `components` yields null from the end of extractComponentTypes, and
\* hasRealComponentTypes of that result is false.
C5_AbsentIsNotFound ==
    (Classified /\ ~HasBinding(doc)) => (IsNull(decl) /\ site = "none" /\ ~real)

\* C5 witness: both calls have run on an artifact whose only `components`
\* binding is not exported.
C5_Witness ==
    /\ pc = "classified"
    /\ ~HasBinding(doc)
    /\ \E i \in 1..Len(doc) :
          /\ doc[i].kind = "var"
          /\ ~doc[i].export
          /\ doc[i].decls[1].name = "components"

\* An artifact has an ambient exported variable statement at top level.
HasAmbientExport(d) ==
    \E i \in 1..Len(d) : d[i].kind = "var" /\ d[i].export /\ d[i].declare

\* C6: isDeclarationFile is true exactly for the artifacts with a top-level
\* variable statement that is both exported and ambient; the marker phrase in
\* a comment, in a string literal or in a nested scope changes nothing.
C6_AmbientIffStatement ==
    (pc = "done") => (ambient = HasAmbientExport(doc))

\* C6 witness: isDeclarationFile has answered false for an artifact that has
\* the marker phrase in a comment, a string literal or a nested scope.
C6_Witness ==
    /\ pc = "done"
    /\ ~ambient
    /\ \/ Includes(content, "export declare const")
       \/ IndexOf(content, <<"export", "declare", "const">>) # 0


\* The declaration text extraction rebuilds for the first binding: the printed
\* statement of an ambient binding, the template around the printed annotation
\* of a runtime binding.
ReconstructedText(d) ==
    IF FirstStmt(d).declare THEN PrintStatement(FirstStmt(d))
    ELSE DeclareTemplate(PrintType(FirstType(d)))

C7_RoundTrip ==
    (ReExtracted /\ ~IsNull(decl) /\ real)
        => /\ ~IsNull(annot)
           /\ ~IsNull(rewrapped)
           /\ hasRealComponentTypes(rewrapped)
           /\ extractComponentTypeAnnotation(rewrapped) = annot

\* C8: extraction is idempotent on its own output: for a non-null result r,
\* extractComponentTypes(r) = r token for token, and hasRealComponentTypes
\* answers the same for both.
C8_ExtractIdempotent ==
    (ReExtracted /\ ~IsNull(decl))
        => (again = decl /\ hasRealComponentTypes(again) = real)

\* C8 witness: a runtime-form binding whose printed annotation differs from
\* its source text has been extracted, and its result extracted again.
C8_Witness ==
    /\ pc = "reextracted"
    /\ site = "runtime"
    /\ ~IsNull(decl)
    /\ HasBinding(doc)
    /\ Val(decl) # DeclareTemplate(RenderType(FirstType(doc)))
    /\ again = decl


(***************************************************************************)
(* What a written artifact declares for `components`, read from its text.  *)
(***************************************************************************)
\* The annotation of the first exported top-level `components` binding of a
\* text, NoType when there is none.
ComponentsTypeOf(text) ==
    LET sf == Parse(text)
    IN  IF HasBinding(sf) THEN FirstType(sf) ELSE NoType

\* The artifact holds a real declaration: a binding whose annotation is not a
\* reference to AnyComponents.
HoldsReal(artifact) ==
    /\ ~IsNull(artifact)
    /\ ComponentsTypeOf(Val(artifact)) # NoType
    /\ ~SentinelReference(ComponentsTypeOf(Val(artifact)))

\* The artifact holds the AnyComponents stub.
HoldsStub(artifact) ==
    /\ ~IsNull(artifact)
    /\ ComponentsTypeOf(Val(artifact)) = TStub

\* C1: no downgrade: once the artifact on disk holds a real `components`
\* declaration, in api.d.ts or in api.ts, an offline regeneration leaves that
\* declaration in the artifact it writes.
C1_NoDowngrade ==
    [][(lastOp' = "offline" /\ HoldsReal(ExistingArtifact))
          => /\ HoldsReal(apiDts')
             /\ ComponentsTypeOf(Val(apiDts'))
                   = ComponentsTypeOf(Val(ExistingArtifact))]_vars

\* C9: an offline regeneration maps no artifact and a stub artifact to the
\* stub, and a real artifact to the same real declaration; a further offline
\* regeneration leaves the declaration as the one before it wrote it.
C9_OfflineIdempotent ==
    [][(lastOp' = "offline")
          => /\ IsNull(ExistingArtifact) => HoldsStub(apiDts')
             /\ HoldsStub(ExistingArtifact) => HoldsStub(apiDts')
             /\ HoldsReal(ExistingArtifact) =>
                   ComponentsTypeOf(Val(apiDts'))
                      = ComponentsTypeOf(Val(ExistingArtifact))
             /\ (lastOp = "offline") =>
                   ComponentsTypeOf(Val(apiDts')) = ComponentsTypeOf(Val(apiDts))]_vars

\* Text `inner` occurs in text `outer`.
Contains(outer, inner) == IndexOf(outer, inner) # 0

\* The statements of a text that do not declare `components`.
OtherStatements(text) ==
    SelectSeq(Parse(text),
              LAMBDA st : ~(\E k \in 1..Len(st.decls) : st.decls[k].name = "components"))

\* C10: when the last offline regeneration kept a real declaration, the
\* artifact it wrote contains that declaration, its `components` binding is
\* not typed AnyComponents, and its other statements are those generated.
C10_PostPassMerge ==
    (lastOp = "offline" /\ ~IsNull(PreservedComponentTypes(existing)))
        => /\ Contains(Val(apiDts), Val(PreservedComponentTypes(existing)))
           /\ HoldsReal(apiDts)
           /\ OtherStatements(Val(apiDts)) = OtherStatements(generated)

\* C10 witness: an offline regeneration has kept a declaration extracted from
\* a runtime-form artifact and written it over the stub it generated.
C10_Witness ==
    /\ lastOp = "offline"
    /\ ~IsNull(PreservedComponentTypes(existing))
    /\ ~isDeclarationFile(Val(existing))
    /\ Contains(generated, componentsExportDTS)
    /\ ~Contains(Val(apiDts), componentsExportDTS)


\* An artifact with every initializer of its `components` bindings replaced.
WithInitializer(d, init) ==
    [i \in 1..Len(d) |->
        IF d[i].kind # "var" THEN d[i]
        ELSE [d[i] EXCEPT !.decls =
                 [k \in 1..Len(d[i].decls) |->
                     IF d[i].decls[k].name = "components" /\ d[i].decls[k].init # <<>>
                     THEN [d[i].decls[k] EXCEPT !.init = init]
                     ELSE d[i].decls[k]]]]

\* The first binding is a runtime assignment annotated with something other
\* than a sentinel reference.
RuntimeBinding(d) ==
    /\ HasBinding(d)
    /\ ~FirstStmt(d).declare
    /\ FirstType(d) # NoType
    /\ ~SentinelReference(FirstType(d))

\* C11: for a runtime-assignment binding `export const components: T = init`
\* whose annotation T is not the sentinel, extractComponentTypes returns
\* exactly `export declare const components: T;` with T as printed; the
\* initializer is not in the result, and the same artifact with another
\* initializer gives the same result.
C11_RuntimeNormalised ==
    (pc # "start" /\ RuntimeBinding(doc))
        => /\ site = "runtime"
           /\ decl = Some(DeclareTemplate(PrintType(FirstType(doc))))
           /\ \A init \in {GenericInit, ObjectInit, <<"load", "(", ")">>} :
                 extractComponentTypes(Render(WithInitializer(doc, init))) = decl

\* C11 witness: a runtime binding whose initializer is `{} as any` has been
\* extracted, and the result has no `=`.
C11_Witness ==
    /\ pc = "extracted"
    /\ RuntimeBinding(doc)
    /\ FirstStmt(doc).decls[FirstBinding(doc)[2]].init = ObjectInit
    /\ ~IsNull(decl)
    /\ ~Includes(Val(decl), "=")


(***************************************************************************)
(* The annotated bindings of an artifact.                                  *)
(***************************************************************************)
\* The top-level variable declarations named `components` that have a type
\* annotation, exported or not: <<statement, declaration>>.
TypedBindings(d) ==
    UNION {{<<i, k>> : k \in {k \in 1..Len(d[i].decls) :
                                 /\ d[i].decls[k].name = "components"
                                 /\ d[i].decls[k].type # NoType}} :
              i \in {i \in 1..Len(d) : d[i].kind = "var"}}

\* The printed annotations of those bindings.
PrintedAnnotations(d) ==
    {PrintType(d[b[1]].decls[b[2]].type) : b \in TypedBindings(d)}

\* None of the declaration around an annotation is in the text.
NoBoilerplate(text) ==
    /\ text # <<>>
    /\ \A i \in 1..Len(text) : text[i] \notin {"export", "declare", "const"}
    /\ ~Contains(text, <<"const", "components">>)
    /\ text[Len(text)] # ";"

Annotated == pc \in {"annotated", "reextracted", "done"}

\* C12: a value returned by extractComponentTypeAnnotation, for an artifact or
\* for an extracted declaration, is the printed type expression of a
\* `components` binding of the artifact, without `export`, `declare`,
\* `const components`, the colon or the terminator.
C12_AnnotationOnly ==
    Annotated
        => /\ ~IsNull(contentAnnot) =>
                 (Val(contentAnnot) \in PrintedAnnotations(doc) /\ NoBoilerplate(Val(contentAnnot)))
           /\ ~IsNull(annot) =>
                 (Val(annot) \in PrintedAnnotations(doc) /\ NoBoilerplate(Val(annot)))

\* C12 witness: the annotation of an extracted declaration with nested object
\* types has been returned.
C12_Witness ==
    /\ pc = "annotated"
    /\ HasBinding(doc)
    /\ FirstType(doc) = TReal
    /\ annot = Some(PrintType(TReal))
    /\ contentAnnot = annot

C14_EmptyObjectIsReal ==
    (Annotated /\ HasBinding(doc) /\ FirstType(doc) = TEmpty)
        => /\ ~IsNull(decl)
           /\ real
           /\ annot = Some(<<"{", "}">>)

\* The binding extraction located is the first one: it is ambient or annotated.
FirstLocated(d) ==
    HasBinding(d) /\ (FirstStmt(d).declare \/ FirstType(d) # NoType)

\* C15: hasRealComponentTypes of an extracted declaration is true exactly when
\* the type of its `components` binding is an object type literal, and false
\* for every type reference, with or without type arguments, and for null.
C15_RealIffObjectLiteral ==
    Classified
        => /\ IsNull(decl) => ~real
           /\ (~IsNull(decl) /\ FirstLocated(doc)) => (real <=> FirstType(doc).kind = "obj")

\* C16: with one or several exported `components` bindings, the result of
\* extractComponentTypes is the result for the statement of the first of
\* them alone.
C16_FirstOccurrenceWins ==
    (pc # "start" /\ HasBinding(doc))
        => decl = extractComponentTypes(Render(<<FirstStmt(doc)>>))

\* C17: a first `components` binding without type annotation, ambient or
\* runtime, yields null from extractComponentTypes.
C17_UntypedIsNotFound ==
    (pc # "start" /\ HasBinding(doc) /\ FirstType(doc) = NoType)
        => IsNull(decl)


\* A statement with a body of its own: a namespace or a function.
NestedScope(st) == st.kind = "other" /\ st.src[1] \in {"namespace", "function"}

\* The binding `components` is declared inside the body of some statement.
HasNestedBinding(d) ==
    \E i \in 1..Len(d) : NestedScope(d[i]) /\ Contains(d[i].src, <<"const", "components">>)

\* The artifact without its namespaces and functions.
TopLevelOnly(d) == SelectSeq(d, LAMBDA st : ~NestedScope(st))

\* C18: a `components` binding inside a namespace or a function body is never
\* located: the three parsing operations answer from the top-level statements
\* alone, as for the artifact without the nested scopes.
C18_TopLevelOnly ==
    (pc = "done" /\ HasNestedBinding(doc))
        => /\ ~HasBinding(doc) => IsNull(decl)
           /\ (TypedBindings(doc) = {}) => IsNull(contentAnnot)
           /\ ambient = HasAmbientExport(doc)
           /\ decl = extractComponentTypes(Render(TopLevelOnly(doc)))
           /\ contentAnnot = extractComponentTypeAnnotation(Some(Render(TopLevelOnly(doc))))
           /\ ambient = isDeclarationFile(Render(TopLevelOnly(doc)))

\* C18 witness: the three operations have answered null, null and false for
\* an artifact whose only `components` bindings are inside a namespace and a
\* function body.
C18_Witness ==
    /\ pc = "done"
    /\ Len(doc) = 2
    /\ doc[1].kind = "other" /\ doc[1].src[1] = "namespace"
    /\ doc[2].kind = "other" /\ doc[2].src[1] = "function"
    /\ HasNestedBinding(doc)
    /\ IsNull(decl)
    /\ IsNull(contentAnnot)
    /\ ~ambient


\* A `string | null` value.
StringOrNull(v) == v = Null \/ (Len(v) = 1 /\ DOMAIN v[1] = 1..Len(v[1]))

\* C19: the four operations return a value for every input, a text or null
\* for the two extractions and a boolean for the two tests; for null and for
\* the empty string hasRealComponentTypes returns false and
\* extractComponentTypeAnnotation returns null.
C19_Total ==
    (pc = "done")
        => /\ StringOrNull(decl)
           /\ StringOrNull(annot)
           /\ StringOrNull(contentAnnot)
           /\ StringOrNull(again)
           /\ real \in BOOLEAN
           /\ contentReal \in BOOLEAN
           /\ ambient \in BOOLEAN
           /\ IsNull(decl) => (~real /\ IsNull(annot))
           /\ (content = <<>>) => (~contentReal /\ IsNull(contentAnnot) /\ IsNull(decl) /\ ~ambient)

\* C19 witness: the four operations have returned for the empty text, and
\* hasRealComponentTypes and extractComponentTypeAnnotation for null.
C19_Witness ==
    /\ pc = "done"
    /\ content = <<>>
    /\ IsNull(decl)
    /\ ~real
    /\ ~contentReal
    /\ IsNull(annot)
    /\ IsNull(contentAnnot)


\* The result of an operation called alone on an argument.
Alone(op, input) ==
    CASE op = "extractComponentTypes" -> extractComponentTypes(Val(input))
      [] op = "hasRealComponentTypes" -> hasRealComponentTypes(input)
      [] op = "extractComponentTypeAnnotation" -> extractComponentTypeAnnotation(input)
      [] op = "isDeclarationFile" -> isDeclarationFile(Val(input))

\* C20: under every interleaving of the callers and after every history of
\* earlier calls, a call returns the result the operation gives on its own
\* argument alone, and no step of a running call changes an argument.
C20_CallsIndependent ==
    [][\A c \in Callers :
          /\ (callPc[c] # "idle" /\ callPc'[c] # "idle") => callInput'[c] = callInput[c]
          /\ (callPc'[c] = "returned") =>
                 callResult'[c] = Some(Alone(callOp'[c], callInput'[c]))]_vars

\* C20 witness: caller 2 has returned from extractComponentTypes while caller
\* 1, which began with another text, has created its source file and not yet
\* scanned it; on that text the result would differ.
C20_Witness ==
    /\ callPc[1] = "parsed"
    /\ callPc[2] = "returned"
    /\ callOp[1] = "extractComponentTypes"
    /\ callOp[2] = "extractComponentTypes"
    /\ callInput[1] # callInput[2]
    /\ callResult[2] = Some(extractComponentTypes(Val(callInput[2])))
    /\ callResult[2] # Some(extractComponentTypes(Val(callInput[1])))
    /\ calls > 2


\* The exported `components` bindings with a type annotation.
TypedExports(d) ==
    {b \in Bindings(d) : d[b[1]].decls[b[2]].type # NoType}

\* C21: every non-null result of extractComponentTypes is exactly one
\* statement `export declare const components: <type>;` with the printed type
\* of an exported `components` binding of the artifact and nothing else.
C21_SingleShape ==
    (pc # "start" /\ ~IsNull(decl))
        => \E b \in TypedExports(doc) :
              decl = Some(DeclareTemplate(PrintType(doc[b[1]].decls[b[2]].type)))

C23_ResultIsDeclarationFile ==
    (pc = "done" /\ ~IsNull(decl)) => declAmbient

\* C23 witness: the result extracted from a runtime-form artifact, which is
\* not a declaration file itself, has been found to be one.
C23_Witness ==
    /\ pc = "done"
    /\ site = "runtime"
    /\ ~ambient
    /\ ~IsNull(decl)
    /\ declAmbient

\* C24: extractComponentTypeAnnotation of every non-null result of
\* extractComponentTypes is non-null.
C24_ResultHasAnnotation ==
    (Annotated /\ ~IsNull(decl)) => ~IsNull(annot)

\* The text extraction rebuilds for binding b of artifact d.
ReconstructedFor(d, b) ==
    IF d[b[1]].declare THEN PrintStatement(d[b[1]])
    ELSE DeclareTemplate(PrintType(d[b[1]].decls[b[2]].type))

\* C25: on every text for which both extractComponentTypes and
\* extractComponentTypeAnnotation return a value, the annotation is the type
\* of the exported binding whose declaration was extracted.
C25_SameBinding ==
    (Annotated /\ ~IsNull(decl) /\ ~IsNull(contentAnnot))
        => \E b \in Bindings(doc) :
              /\ decl = Some(ReconstructedFor(doc, b))
              /\ contentAnnot = Some(PrintType(doc[b[1]].decls[b[2]].type))


(***************************************************************************)
(* C26.  The fresh artifact of apiCodegen is classified consistently: with  *)
(* includeComponentsStub the declaration output and the TypeScript output  *)
(* each hold exactly one exported `components` binding, typed              *)
(* AnyComponents, and extractComponentTypes returns null for them; without *)
(* includeComponentsStub no output exports `components`; isDeclarationFile *)
(* is true of the declaration output and false of the TypeScript output.   *)
(***************************************************************************)
\* The positions of the name of an exported `components` binding in a text.
ExportedComponentsAt(text) ==
    {i \in 1..Len(text) :
        /\ text[i] = "components"
        /\ Tok(text, i - 1) = "const"
        /\ \/ Tok(text, i - 2) = "export"
           \/ Tok(text, i - 2) = "declare" /\ Tok(text, i - 3) = "export"}

\* The binding at position i is annotated with the bare name AnyComponents.
TypedAnyComponents(text, i) ==
    /\ Tok(text, i + 1) = ":"
    /\ Tok(text, i + 2) = "AnyComponents"
    /\ Tok(text, i + 3) \in {";", "="}

Written == {f \in Outputs : ~IsNull(cgOut[f])}

C26_FreshArtifactClassified ==
    cgPc = "classified" =>
        /\ Written = IF OrFalse(cgOpts.useTypeScript) THEN {"TS"} ELSE {"DTS", "JS"}
        /\ \A f \in Written :
              LET text == Val(cgOut[f])
              IN  IF OrFalse(cgOpts.includeComponentsStub)
                  THEN f \in {"DTS", "TS"} =>
                          /\ Cardinality(ExportedComponentsAt(text)) = 1
                          /\ \A i \in ExportedComponentsAt(text) : TypedAnyComponents(text, i)
                          /\ IsNull(cgDecl[f])
                  ELSE ExportedComponentsAt(text) = {}
        /\ "DTS" \in Written => cgAmbient["DTS"]
        /\ "TS" \in Written => ~cgAmbient["TS"]

C26_Witness ==
    /\ cgPc = "classified"
    /\ OrFalse(cgOpts.includeComponentsStub)
    /\ cgModulePaths = <<ModuleFile("components"), ModuleFile("messages")>>
    /\ ~IsNull(cgOut["TS"])
    /\ Cardinality(ExportedComponentsAt(Val(cgOut["TS"]))) = 1
    /\ IsNull(cgDecl["TS"])

(***************************************************************************)
(* C27.  When apiCodegen is called with preservedComponentTypes, the       *)
(* declaration output holds the preserved `components` declaration and not *)
(* the AnyComponents stub, and the JavaScript output still exports         *)
(* components = componentsGeneric().                                       *)
(***************************************************************************)
C27_PreservedInsteadOfStub ==
    (cgPc # "start" /\ ~IsNull(cgOpts.preservedComponentTypes) /\ ~IsNull(cgOut["DTS"])) =>
        /\ Contains(Val(cgOut["DTS"]), Val(cgOpts.preservedComponentTypes))
        /\ ~Contains(Val(cgOut["DTS"]), componentsExportDTS)
        /\ Contains(Val(cgOut["JS"]),
                    <<"export", "const", "components", "=", "componentsGeneric", "(", ")", ";">>)

(***************************************************************************)
(* C28.  runCodegen takes the local codegen (doCodegen) exactly when       *)
(* offline or systemUdfs is set: such a run loads no deployment            *)
(* credentials and starts no push at any time and comes to call doCodegen, *)
(* a run with both flags false never calls doCodegen and comes to the      *)
(* backend flow.                                                           *)
(***************************************************************************)
LocalFlags == rcOptions.offline \/ rcOptions.systemUdfs
OnBackendPath == rcPc \in {"backend", "credentials", "crashed"} \/ rcCredentials \/ rcPush

C29_NoClash ==
    ~IsNull(identifier) => Spell(Val(identifier)) \notin (ArtifactBindings \cup reserved)

C29_Witness ==
    /\ idPath = <<"in", "/", "api", ".", "ts">>
    /\ identifier = Some(<<"in", "_", "api">>)
    /\ imported = Some(<<"in", "/", "api">>)

====
